---- MODULE Spec2Model ----
(***************************************************************************)
(* Model of src/src/obtener_datos_prueba.py: the paginated Socrata fetch   *)
(* (fetch_all_rows), the filter rendering (build_where), the day iterator  *)
(* (daterange) and the dataset loop of main.                               *)
(*                                                                         *)
(* A date is a tuple <<year, month, day>>.  A row is a record [id, date].  *)
(* The provider is the environment: it holds one table of rows in a fixed  *)
(* order and answers a GET with the rows that match $where, cut to         *)
(* $offset/$limit, or with a failure status.                               *)
(***************************************************************************)
EXTENDS Integers, Sequences, FiniteSets, TLC

VARIABLES
    DATASETS,    \* the configured datasets, in dict order (line 25)
    source,      \* the rows the provider holds, in its fixed order
    page_size,   \* fetch_all_rows' page_size parameter (line 93)
    pc,          \* position of the single thread of main
    idx,         \* number of DATASETS items the for loop has taken (line 133)
    d,           \* daterange's d (line 125)
    all_parts,   \* main's all_parts (line 146)
    where,       \* main's where (lines 149, 160)
    out,         \* fetch_all_rows' out (line 97)
    offset,      \* fetch_all_rows' offset (line 98)
    df,          \* main's df (lines 157, 164)
    files,       \* the files under OUT_DIR: path -> rows
    exc,         \* the exception that ended the run, or None
    log          \* history: the requests, pauses and writes so far

vars == <<DATASETS, source, page_size, pc, idx, d, all_parts, where, out,
          offset, df, files, exc, log>>

None == "None"

\* ---------------------------------------------------------------- bounds
MaxRows == 2
MaxPage == 2
MaxKeys == 2
MaxObjects == 1

\* ------------------------------------------------------------- constants
Domain == "https://data.ny.gov"
OUT_DIR == "data/raw"
START_DAY == <<2024, 1, 24>>
END_DAY_EXCL == <<2024, 1, 28>>

\* ------------------------------------------------------------------ dates
IsLeap(y) == (y % 4 = 0 /\ y % 100 # 0) \/ y % 400 = 0

DaysInMonth(y, m) ==
    IF m = 2 THEN (IF IsLeap(y) THEN 29 ELSE 28)
    ELSE IF m \in {4, 6, 9, 11} THEN 30 ELSE 31

\* date + timedelta(days=1)
AddDay(x) ==
    IF x[3] < DaysInMonth(x[1], x[2]) THEN <<x[1], x[2], x[3] + 1>>
    ELSE IF x[2] < 12 THEN <<x[1], x[2] + 1, 1>>
    ELSE <<x[1] + 1, 1, 1>>

\* date.__lt__
DateLT(a, b) ==
    \/ a[1] < b[1]
    \/ a[1] = b[1] /\ a[2] < b[2]
    \/ a[1] = b[1] /\ a[2] = b[2] /\ a[3] < b[3]

DateLE(a, b) == a = b \/ DateLT(a, b)

Pad2(n) == IF n < 10 THEN "0" \o ToString(n) ELSE ToString(n)

Pad4(n) ==
    IF n < 10 THEN "000" \o ToString(n)
    ELSE IF n < 100 THEN "00" \o ToString(n)
    ELSE IF n < 1000 THEN "0" \o ToString(n)
    ELSE ToString(n)

\* date.isoformat()
isoformat(x) == Pad4(x[1]) \o "-" \o Pad2(x[2]) \o "-" \o Pad2(x[3])

\* datetime(y, m, d, 0, 0, 0).isoformat()
datetime_isoformat(x) == isoformat(x) \o "T00:00:00"

\* ------------------------------------------------------------ build_where
\* mutant of build_where: the two bounds change places
build_where_Swapped(date_col, dtype, start_d, end_excl) ==
    IF dtype = "calendar_date"
    THEN date_col \o " >= '" \o isoformat(end_excl) \o "' AND "
         \o date_col \o " < '" \o isoformat(start_d) \o "'"
    ELSE date_col \o " >= '" \o datetime_isoformat(end_excl) \o "' AND "
         \o date_col \o " < '" \o datetime_isoformat(start_d) \o "'"

\* mutant of build_where: every tag is rendered as a timestamp
build_where_AlwaysTimestamp(date_col, dtype, start_d, end_excl) ==
    date_col \o " >= '" \o datetime_isoformat(start_d) \o "' AND "
    \o date_col \o " < '" \o datetime_isoformat(end_excl) \o "'"

build_where(date_col, dtype, start_d, end_excl) ==
    IF dtype = "calendar_date"
    THEN date_col \o " >= '" \o isoformat(start_d) \o "' AND "
         \o date_col \o " < '" \o isoformat(end_excl) \o "'"
    ELSE date_col \o " >= '" \o datetime_isoformat(start_d) \o "' AND "
         \o date_col \o " < '" \o datetime_isoformat(end_excl) \o "'"

\* --------------------------------------------------------------- DATASETS
\* The three entries of DATASETS with the source's name, id, date_col, dtype
\* and select.  The inputs the model draws are each entry's per_day and the
\* two ranges of the source: (START_DAY, END_DAY_EXCL) of the first entry and
\* (MONTH_START, MONTH_END_EXCL), which the other two entries share.
Entry(name, id, date_col, select, range, per_day) ==
    [name |-> name, id |-> id, date_col |-> date_col,
     dtype |-> "floating_timestamp",
     range_start |-> range[1], range_end_excl |-> range[2],
     select |-> select, per_day |-> per_day]

\* The ranges drawn, for both: the source's [2024-01-24, 2024-01-28), an
\* empty one and a reversed one (the source's month range, 31 days, is not
\* enumerated).
Ranges == { <<START_DAY, END_DAY_EXCL>>, <<START_DAY, START_DAY>>,
            <<END_DAY_EXCL, START_DAY>> }

DatasetChoices ==
    { << Entry("hourly_ridership", "wujg-7c2s", "transit_timestamp",
               "transit_timestamp,transit_mode,station_complex_id,borough,payment_method,fare_class_category,ridership,transfers,latitude,longitude",
               day_range, p1),
         Entry("major_incidents", "j6d2-s8m2", "month", None, month_range, p2),
         Entry("terminal_otp", "vtvh-gimj", "month", None, month_range, p3) >> :
        day_range \in Ranges, month_range \in Ranges,
        p1 \in BOOLEAN, p2 \in BOOLEAN, p3 \in BOOLEAN }

\* --------------------------------------------------------------- provider
RowDates == {<<2024, 1, 24>>, <<2024, 1, 27>>, <<2024, 1, 28>>}

Tables ==
    UNION { { [k \in 1..n |-> [id |-> k, date |-> t[k]]] : t \in [1..n -> RowDates] } :
            n \in 0..MaxRows }

RECURSIVE DaysFrom(_, _)
DaysFrom(x, n) == IF n = 0 THEN {x} ELSE {x} \cup DaysFrom(AddDay(x), n - 1)

\* the date literals the provider's query language reads in this model
ServerDates == DaysFrom(START_DAY, 5)
ServerColumns == {"transit_timestamp", "month"}
Literal(x, f) == IF f = "date" THEN isoformat(x) ELSE datetime_isoformat(x)

\* SoQL text of "col >= 'lo' AND col < 'hi'" with the bounds it denotes
ServerQueries ==
    { [text |-> c \o " >= '" \o Literal(x, f) \o "' AND "
                \o c \o " < '" \o Literal(y, g) \o "'",
       lo |-> x, hi |-> y] :
        c \in ServerColumns, x \in ServerDates, y \in ServerDates,
        f \in {"date", "timestamp"}, g \in {"date", "timestamp"} }

Parsed(w) == {q \in ServerQueries : q.text = w}

\* the rows dated in [q.lo, q.hi), in the order of rows
SelectRows(rows, q) ==
    LET F[k \in 0..Len(rows)] ==
            IF k = 0 THEN <<>>
            ELSE IF DateLE(q.lo, rows[k].date) /\ DateLT(rows[k].date, q.hi)
                 THEN Append(F[k - 1], rows[k])
                 ELSE F[k - 1]
    IN F[Len(rows)]

Min(a, b) == IF a < b THEN a ELSE b

\* the rows the provider returns for params when it answers with success
Page(rows, p) ==
    LET matching == IF "$where" \in DOMAIN p
                    THEN {SelectRows(rows, q) : q \in Parsed(p["$where"])}
                    ELSE {rows}
    IN CHOOSE page \in { SubSeq(m, p["$offset"] + 1,
                                Min(Len(m), p["$offset"] + p["$limit"])) :
                         m \in matching } : TRUE

\* a query the provider cannot read is answered 400
Readable(p) ==
    "$where" \in DOMAIN p => Parsed(p["$where"]) # {}

\* ------------------------------------------- tables and paths of main
DataFrame(rows) == rows

RECURSIVE concat(_)
concat(parts) == IF parts = <<>> THEN <<>> ELSE Head(parts) \o concat(Tail(parts))

out_csv(c) ==
    OUT_DIR \o "/" \o c.name \o "_" \o isoformat(c.range_start) \o "_to_"
    \o isoformat(c.range_end_excl) \o "_end_excl.csv"

\* --------------------------------------------------------- fetch_all_rows
cfg == DATASETS[idx]

base(dataset_id) == Domain \o "/resource/" \o dataset_id \o ".json"

\* mutant of Params: the column selection is sent with the first page only
Params_SelectOnFirstPage(limit, off, w, select) ==
    LET p1 == ("$limit" :> limit) @@ ("$offset" :> off)
        p2 == IF w # None /\ w # "" THEN p1 @@ ("$where" :> w) ELSE p1
    IN IF select # None /\ select # "" /\ off = 0
       THEN p2 @@ ("$select" :> select) ELSE p2

\* lines 101-105
Params(limit, off, w, select) ==
    LET p1 == ("$limit" :> limit) @@ ("$offset" :> off)
        p2 == IF w # None /\ w # "" THEN p1 @@ ("$where" :> w) ELSE p1
    IN IF select # None /\ select # "" THEN p2 @@ ("$select" :> select) ELSE p2

params == Params(page_size, offset, where, cfg.select)

\* mutant of Call: the call pauses before its first request
Call_PausesFirst(i, w) ==
    /\ where' = w
    /\ out' = <<>>
    /\ offset' = 0
    /\ pc' = "sleep"
    /\ log' = Append(log, [ev |-> "call", i |-> i, where |-> w])

\* entry of fetch_all_rows(ds_id, where=w, select=select), lines 96-98
Call(i, w) ==
    /\ where' = w
    /\ out' = <<>>
    /\ offset' = 0
    /\ pc' = "get"
    /\ log' = Append(log, [ev |-> "call", i |-> i, where |-> w])

\* mutant of GetError: the failure status is ignored and the call returns
\* what it has
GetError_Swallowed ==
    /\ pc = "get"
    /\ pc' = "return"
    /\ log' = Append(log, [ev |-> "get", url |-> base(cfg.id), params |-> params,
                           status |-> "error", n |-> 0])
    /\ UNCHANGED <<DATASETS, source, page_size, idx, d, all_parts, where, out,
                   offset, df, files, exc>>

\* mutant of GetError: the rows fetched so far are saved before the error
\* leaves main
GetError_SavesPartial ==
    /\ pc = "get"
    /\ pc' = "raised"
    /\ exc' = "HTTPError"
    /\ files' = (out_csv(cfg) :> (concat(all_parts) \o out)) @@ files
    /\ log' = Append(log, [ev |-> "get", url |-> base(cfg.id), params |-> params,
                           status |-> "error", n |-> 0])
    /\ UNCHANGED <<DATASETS, source, page_size, idx, d, all_parts, where, out,
                   offset, df>>

\* mutant of GetError: in per-day mode the failed day is skipped and the day
\* loop goes on
GetError_SkipsDay ==
    /\ pc = "get"
    /\ IF cfg.per_day
       THEN pc' = "for_day" /\ UNCHANGED exc
       ELSE pc' = "raised" /\ exc' = "HTTPError"
    /\ log' = Append(log, [ev |-> "get", url |-> base(cfg.id), params |-> params,
                           status |-> "error", n |-> 0])
    /\ UNCHANGED <<DATASETS, source, page_size, idx, d, all_parts, where, out,
                   offset, df, files>>

\* lines 108-109: the response has a failure status, raise_for_status raises
\* and nothing in fetch_all_rows or main catches it
GetError ==
    /\ pc = "get"
    /\ pc' = "raised"
    /\ exc' = "HTTPError"
    /\ log' = Append(log, [ev |-> "get", url |-> base(cfg.id), params |-> params,
                           status |-> "error", n |-> 0])
    /\ UNCHANGED <<DATASETS, source, page_size, idx, d, all_parts, where, out,
                   offset, df, files>>

\* mutant of AfterBatch: the offset advances by one row too many
AfterBatch_OffsetSkips(batch) ==
    IF batch = <<>>
    THEN /\ pc' = "return"
         /\ UNCHANGED <<out, offset>>
    ELSE /\ out' = out \o batch
         /\ IF Len(batch) < page_size
            THEN pc' = "return" /\ UNCHANGED offset
            ELSE pc' = "sleep" /\ offset' = offset + page_size + 1

\* mutant of AfterBatch: a page of exactly page_size rows ends the loop
AfterBatch_StopsOnFullPage(batch) ==
    IF batch = <<>>
    THEN /\ pc' = "return"
         /\ UNCHANGED <<out, offset>>
    ELSE /\ out' = out \o batch
         /\ IF Len(batch) <= page_size
            THEN pc' = "return" /\ UNCHANGED offset
            ELSE pc' = "sleep" /\ offset' = offset + page_size

\* mutant of AfterBatch: the offset moves on by the number of rows received
\* even when the page is the last one
AfterBatch_OffsetByRows(batch) ==
    IF batch = <<>>
    THEN /\ pc' = "return"
         /\ UNCHANGED <<out, offset>>
    ELSE /\ out' = out \o batch
         /\ offset' = offset + Len(batch)
         /\ pc' = IF Len(batch) < page_size THEN "return" ELSE "sleep"

\* lines 112-120 for a parsed body
AfterBatch(batch) ==
    IF batch = <<>>
    THEN /\ pc' = "return"
         /\ UNCHANGED <<out, offset>>
    ELSE /\ out' = out \o batch
         /\ IF Len(batch) < page_size
            THEN pc' = "return" /\ UNCHANGED offset
            ELSE pc' = "sleep" /\ offset' = offset + page_size

\* mutant of GetOk: the rows of a page come in either order
GetOk_EitherOrder ==
    /\ pc = "get"
    /\ \E p \in {params} :
          /\ Readable(p)
          /\ \E page \in {Page(source, p)} :
             \E batch \in {page, [k \in 1..Len(page) |-> page[Len(page) + 1 - k]]} :
                /\ AfterBatch(batch)
                /\ log' = Append(log, [ev |-> "get", url |-> base(cfg.id),
                                       params |-> p, status |-> "ok",
                                       n |-> Len(batch)])
    /\ UNCHANGED <<DATASETS, source, page_size, idx, d, all_parts, where, df,
                   files, exc>>

\* lines 101-120: one pass of the loop with a successful response
GetOk ==
    /\ pc = "get"
    /\ \E p \in {params} :
          /\ Readable(p)
          /\ \E batch \in {Page(source, p)} :
                /\ AfterBatch(batch)
                /\ log' = Append(log, [ev |-> "get", url |-> base(cfg.id),
                                       params |-> p, status |-> "ok",
                                       n |-> Len(batch)])
    /\ UNCHANGED <<DATASETS, source, page_size, idx, d, all_parts, where, df,
                   files, exc>>

\* what iterating a JSON object of k members yields: its member names
ObjectKeys(k) == [j \in 1..k |-> [key |-> "k" \o ToString(j)]]

\* lines 108-120 when the response has a success status and its body is one
\* JSON object of k members: r.json() is a dict, an empty one is falsy
\* (line 112), out.extend appends the keys of a non-empty one (line 115) and
\* len counts them (line 116); at most MaxObjects such answers in a run
GetObject ==
    /\ pc = "get"
    /\ Cardinality({j \in 1..Len(log) : "body" \in DOMAIN log[j]}) < MaxObjects
    /\ \E k \in 0..MaxKeys : \E p \in {params} :
          /\ AfterBatch(ObjectKeys(k))
          /\ log' = Append(log, [ev |-> "get", url |-> base(cfg.id),
                                 params |-> p, status |-> "ok", n |-> k,
                                 body |-> "object"])
    /\ UNCHANGED <<DATASETS, source, page_size, idx, d, all_parts, where, df,
                   files, exc>>

\* mutant of Sleep: the pause never ends
Sleep_Forever ==
    /\ pc = "sleep"
    /\ UNCHANGED vars

\* line 120: time.sleep(0.2)
Sleep ==
    /\ pc = "sleep"
    /\ pc' = "get"
    /\ log' = Append(log, [ev |-> "sleep"])
    /\ UNCHANGED <<DATASETS, source, page_size, idx, d, all_parts, where, out,
                   offset, df, files, exc>>

\* -------------------------------------------------------------- daterange
\* mutant of daterange: the end of the range is yielded too
daterange_Inclusive(start_d, end_excl) ==
    LET yielded[x \in Int \X Int \X Int] ==
            IF DateLE(x, end_excl) THEN <<x>> \o yielded[AddDay(x)] ELSE <<>>
    IN yielded[start_d]

\* mutant of daterange: the days are yielded last day first
daterange_Descending(start_d, end_excl) ==
    LET yielded[x \in Int \X Int \X Int] ==
            IF DateLT(x, end_excl) THEN yielded[AddDay(x)] \o <<x>> ELSE <<>>
    IN yielded[start_d]

\* the days the generator yields from d = x on (lines 126-128), as a sequence
daterange(start_d, end_excl) ==
    LET yielded[x \in Int \X Int \X Int] ==
            IF DateLT(x, end_excl) THEN <<x>> \o yielded[AddDay(x)] ELSE <<>>
    IN yielded[start_d]

\* ------------------------------------------------------------------- main
\* line 133 with lines 134-146 or 160-163: the for loop takes the next dataset
NextDataset ==
    /\ pc = "for_dataset"
    /\ idx < Len(DATASETS)
    /\ idx' = idx + 1
    /\ \E c \in {DATASETS[idx + 1]} :
          IF c.per_day
          THEN /\ all_parts' = <<>>
               /\ d' = 0
               /\ pc' = "for_day"
               /\ UNCHANGED <<where, out, offset, log>>
          ELSE /\ \E w \in {build_where(c.date_col, c.dtype, c.range_start,
                                        c.range_end_excl)} : Call(idx + 1, w)
               /\ UNCHANGED <<all_parts, d>>
    /\ UNCHANGED <<DATASETS, source, page_size, df, files, exc>>

\* line 133: DATASETS is exhausted, main returns
Finish ==
    /\ pc = "for_dataset"
    /\ idx = Len(DATASETS)
    /\ pc' = "done"
    /\ UNCHANGED <<DATASETS, source, page_size, idx, d, all_parts, where, out,
                   offset, df, files, exc, log>>

\* mutant of NextDay: a day's window is two days long
NextDay_TwoDayWindow ==
    /\ pc = "for_day"
    /\ \E days \in {daterange(cfg.range_start, cfg.range_end_excl)} :
          /\ d < Len(days)
          /\ d' = d + 1
          /\ \E day \in {days[d + 1]} : \E d_end \in {AddDay(AddDay(day))} :
                \E w \in {build_where(cfg.date_col, cfg.dtype, day, d_end)} :
                    Call(idx, w)
    /\ UNCHANGED <<DATASETS, source, page_size, idx, all_parts, df, files, exc>>

\* lines 147-152: the generator yields the next day (d counts the days taken)
NextDay ==
    /\ pc = "for_day"
    /\ \E days \in {daterange(cfg.range_start, cfg.range_end_excl)} :
          /\ d < Len(days)
          /\ d' = d + 1
          /\ \E day \in {days[d + 1]} : \E d_end \in {AddDay(day)} :
                \E w \in {build_where(cfg.date_col, cfg.dtype, day, d_end)} :
                    Call(idx, w)
    /\ UNCHANGED <<DATASETS, source, page_size, idx, all_parts, df, files, exc>>

\* mutant of Concat: pd.concat is called on the empty list too and raises
Concat_FailsOnNoParts ==
    /\ pc = "for_day"
    /\ d = Len(daterange(cfg.range_start, cfg.range_end_excl))
    /\ IF all_parts # <<>>
       THEN df' = concat(all_parts) /\ pc' = "write" /\ UNCHANGED exc
       ELSE pc' = "raised" /\ exc' = "ValueError" /\ UNCHANGED df
    /\ UNCHANGED <<DATASETS, source, page_size, idx, d, all_parts, where, out,
                   offset, files, log>>

\* line 157: the generator is exhausted
Concat ==
    /\ pc = "for_day"
    /\ d = Len(daterange(cfg.range_start, cfg.range_end_excl))
    /\ df' = IF all_parts # <<>> THEN concat(all_parts) ELSE DataFrame(<<>>)
    /\ pc' = "write"
    /\ UNCHANGED <<DATASETS, source, page_size, idx, d, all_parts, where, out,
                   offset, files, exc, log>>

\* mutant of Return: a day's rows are put in front of the earlier days' rows
Return_Prepends ==
    /\ pc = "return"
    /\ LET rows == out
       IN IF cfg.per_day
          THEN /\ all_parts' = IF rows # <<>>
                               THEN <<DataFrame(rows)>> \o all_parts
                               ELSE all_parts
               /\ pc' = "for_day"
               /\ UNCHANGED df
          ELSE /\ df' = DataFrame(rows)
               /\ pc' = "write"
               /\ UNCHANGED all_parts
    /\ log' = Append(log, [ev |-> "return", i |-> idx, rows |-> out])
    /\ UNCHANGED <<DATASETS, source, page_size, idx, d, where, out, offset,
                   files, exc>>

\* line 122 and the caller's lines 152-155 or 163-164
Return ==
    /\ pc = "return"
    /\ LET rows == out
       IN IF cfg.per_day
          THEN /\ all_parts' = IF rows # <<>>
                               THEN Append(all_parts, DataFrame(rows))
                               ELSE all_parts
               /\ pc' = "for_day"
               /\ UNCHANGED df
          ELSE /\ df' = DataFrame(rows)
               /\ pc' = "write"
               /\ UNCHANGED all_parts
    /\ log' = Append(log, [ev |-> "return", i |-> idx, rows |-> out])
    /\ UNCHANGED <<DATASETS, source, page_size, idx, d, where, out, offset,
                   files, exc>>

\* mutant of Write: an empty table leaves no file behind
Write_SkipsEmpty ==
    /\ pc = "write"
    /\ files' = IF df = <<>> THEN files ELSE (out_csv(cfg) :> df) @@ files
    /\ pc' = "for_dataset"
    /\ log' = Append(log, [ev |-> "write", i |-> idx, path |-> out_csv(cfg),
                           rows |-> df])
    /\ UNCHANGED <<DATASETS, source, page_size, idx, d, all_parts, where, out,
                   offset, df, exc>>

\* lines 166-171
Write ==
    /\ pc = "write"
    /\ files' = (out_csv(cfg) :> df) @@ files
    /\ pc' = "for_dataset"
    /\ log' = Append(log, [ev |-> "write", i |-> idx, path |-> out_csv(cfg),
                           rows |-> df])
    /\ UNCHANGED <<DATASETS, source, page_size, idx, d, all_parts, where, out,
                   offset, df, exc>>

Init ==
    /\ DATASETS \in DatasetChoices
    /\ source \in Tables
    /\ page_size \in 1..MaxPage
    /\ pc = "for_dataset"
    /\ idx = 0
    /\ d = 0
    /\ all_parts = <<>>
    /\ where = None
    /\ out = <<>>
    /\ offset = 0
    /\ df = <<>>
    /\ files = <<>>
    /\ exc = None
    /\ log = <<>>

Next ==
    \/ NextDataset
    \/ Finish
    \/ NextDay
    \/ Concat
    \/ GetOk
    \/ GetError
    \/ Sleep
    \/ Return
    \/ Write

Spec == Init /\ [][Next]_vars

\* build_where on its own (lines 83-88): the inputs are drawn, one step
\* applies the function to them
WhereDates == {<<2024, 1, 24>>, <<2024, 1, 28>>, <<2024, 2, 1>>,
               <<2023, 12, 31>>, <<987, 6, 5>>}

WhereInit ==
    /\ DATASETS \in { << [name |-> "x", id |-> "x", date_col |-> col,
                          dtype |-> tag, range_start |-> s, range_end_excl |-> e,
                          select |-> None, per_day |-> FALSE] >> :
                      col \in {"transit_timestamp", "month"},
                      tag \in {"calendar_date", "floating_timestamp", "text"},
                      s \in WhereDates, e \in WhereDates }
    /\ source = <<>>
    /\ page_size = 1
    /\ pc = "build_where"
    /\ idx = 1
    /\ d = 0
    /\ all_parts = <<>>
    /\ where = None
    /\ out = <<>>
    /\ offset = 0
    /\ df = <<>>
    /\ files = <<>>
    /\ exc = None
    /\ log = <<>>

BuildWhere ==
    /\ pc = "build_where"
    /\ where' = build_where(cfg.date_col, cfg.dtype, cfg.range_start,
                            cfg.range_end_excl)
    /\ pc' = "built"
    /\ UNCHANGED <<DATASETS, source, page_size, idx, d, all_parts, out, offset,
                   df, files, exc, log>>

WhereSpec == WhereInit /\ [][BuildWhere]_vars

\* the run when the provider may also answer with a JSON object
BodyNext ==
    \/ NextDataset
    \/ Finish
    \/ NextDay
    \/ Concat
    \/ GetOk
    \/ GetObject
    \/ GetError
    \/ Sleep
    \/ Return
    \/ Write

\* lines 25-56: the flags of DATASETS as the source gives them
BodyInit ==
    /\ Init
    /\ <<DATASETS[1].per_day, DATASETS[2].per_day, DATASETS[3].per_day>>
           = <<TRUE, FALSE, FALSE>>
    /\ DATASETS[1].range_start = START_DAY
    /\ DATASETS[1].range_end_excl = END_DAY_EXCL
    /\ DATASETS[2].range_start = START_DAY
    /\ DATASETS[2].range_end_excl = END_DAY_EXCL

BodySpec == BodyInit /\ [][BodyNext]_vars

\* ----------------------------------------------------- reading the history
IsCall(e) == e.ev = "call"
IsGet(e) == e.ev = "get"
IsSleep(e) == e.ev = "sleep"

\* position in log of the entry of the fetch_all_rows call in progress (or
\* of the last one), 0 before the first call
LastCall ==
    IF \E j \in 1..Len(log) : IsCall(log[j])
    THEN CHOOSE j \in 1..Len(log) :
            IsCall(log[j]) /\ \A k \in (j + 1)..Len(log) : ~IsCall(log[k])
    ELSE 0

\* the requests of that call, in order
CurGets == SelectSeq(SubSeq(log, LastCall + 1, Len(log)), IsGet)

\* the rows of the provider's table that match the filter w, in its order
Matching(w) == SelectRows(source, CHOOSE q \in Parsed(w) : TRUE)

\* ---------------------------------------------------------------------- C1
\* C1: when fetch_all_rows returns (every page request of the call was
\* answered with success by the stable table), the rows it returns are
\* exactly the rows of the table that match the filter, in the table's
\* order, none duplicated and none omitted, for every page_size in
\* 1..MaxPage and every number of matching rows in 0..MaxRows.
C1_ReturnsAllRows ==
    pc = "return" => out = Matching(where)

\* a return that took three pages, the last one empty
C1_Witness ==
    /\ pc = "return"
    /\ Len(CurGets) = 3
    /\ Len(out) = 2 * page_size
    /\ out = Matching(where)

\* ---------------------------------------------------------------------- C2
\* C2: a call that returns after N matching rows has issued exactly
\* N \div page_size + 1 requests; every request but the last got exactly
\* page_size rows and the last got fewer, so no request follows a short page
\* and one more request follows every full page.
C2_RequestCount ==
    /\ pc = "return" =>
          /\ Len(CurGets) = (Len(Matching(where)) \div page_size) + 1
          /\ CurGets[Len(CurGets)].n < page_size
    /\ pc \in {"get", "sleep", "return"} =>
          \A j \in 1..(Len(CurGets) - 1) : CurGets[j].n = page_size
    /\ pc = "sleep" => CurGets[Len(CurGets)].n = page_size

\* first page full, second page empty: exactly 2 requests
C2_Witness ==
    /\ pc = "return"
    /\ Len(CurGets) = 2
    /\ CurGets[1].n = page_size
    /\ CurGets[2].n = 0
    /\ Len(out) = page_size

\* ---------------------------------------------------------------------- C3
\* C3: a page request answered with a failure status is the last thing the
\* run does: the call ends in an HTTPError, it never returns (no rows, not
\* even those of earlier pages, reach the caller), and no request, of this
\* call or of its caller, follows the failed one.
C3_FailureRaises ==
    \A j \in 1..Len(log) :
        (IsGet(log[j]) /\ log[j].status = "error") =>
            /\ j = Len(log)
            /\ pc = "raised"
            /\ exc = "HTTPError"

\* a later page fails after an earlier page delivered rows
C3_Witness ==
    /\ pc = "raised"
    /\ Len(CurGets) = 2
    /\ CurGets[2].status = "error"
    /\ out # <<>>

\* ------------------------------------------------------------- C4, C5, C6
\* the entries of the fetch_all_rows calls made for dataset i, in order
CallsOf(i) == SelectSeq(log, LAMBDA e : IsCall(e) /\ e.i = i)

\* the day number of a date within its year (1 for January 1st)
RECURSIVE DaysBefore(_, _)
DaysBefore(y, m) == IF m = 1 THEN 0 ELSE DaysInMonth(y, m - 1) + DaysBefore(y, m - 1)
DayOfYear(x) == DaysBefore(x[1], x[2]) + x[3]

\* the dataset's part of the loop ran to its end (no fetch of it failed)
Completed(i) == i < idx \/ (i = idx /\ pc \in {"write", "for_dataset", "done"})

\* the filter w selects exactly the half-open interval [lo, hi)
Covers(w, lo, hi) == Parsed(w) # {} /\ \A q \in Parsed(w) : q.lo = lo /\ q.hi = hi

RECURSIVE RowsByDay(_, _)
RowsByDay(lo, n) ==
    IF n <= 0 THEN <<>>
    ELSE SelectRows(source, [lo |-> lo, hi |-> AddDay(lo)]) \o RowsByDay(AddDay(lo), n - 1)

\* the rows the calls made for dataset i have returned, call after call
ReturnedTo(i) ==
    LET rets == SelectSeq(log, LAMBDA e : e.ev = "return" /\ e.i = i)
        F[k \in 0..Len(rets)] == IF k = 0 THEN <<>> ELSE F[k - 1] \o rets[k].rows
    IN F[Len(rets)]

\* C5: in per-day mode, when every day's fetch has succeeded, the table to
\* be written is the days' row sequences joined in ascending day order: it
\* is what the calls returned, call after call (each day's rows in the order
\* the fetcher returned them, empty days adding nothing), which is the
\* table's matching rows day by day, so a row never follows a row of a later
\* day.
C5_ConcatInDayOrder ==
    (pc = "write" /\ cfg.per_day) =>
        /\ df = ReturnedTo(idx)
        /\ df = RowsByDay(cfg.range_start,
                          DayOfYear(cfg.range_end_excl) - DayOfYear(cfg.range_start))
        /\ \A a \in 1..Len(df) : \A b \in (a + 1)..Len(df) :
              /\ DateLE(df[a].date, df[b].date)
              /\ df[a].date = df[b].date => df[a].id < df[b].id

\* rows of the 27th precede, in the table, rows of the 24th; the days 25 and
\* 26 are empty
C5_Witness ==
    /\ pc = "write"
    /\ cfg.per_day
    /\ Len(df) = 2
    /\ df[1].date = <<2024, 1, 24>> /\ df[1].id = 2
    /\ df[2].date = <<2024, 1, 27>> /\ df[2].id = 1
    /\ Len(CallsOf(idx)) = 4

\* C6: for a dataset with per_day = false that the loop has taken, main has
\* made exactly one fetch_all_rows call, and its filter covers exactly
\* [range_start, range_end_excl).
C6_SingleShot ==
    \A i \in 1..idx :
        ~DATASETS[i].per_day =>
            /\ Len(CallsOf(i)) = 1
            /\ Covers(CallsOf(i)[1].where, DATASETS[i].range_start,
                      DATASETS[i].range_end_excl)

C6_Witness ==
    /\ pc = "done"
    /\ ~DATASETS[2].per_day
    /\ Len(CallsOf(2)) = 1
    /\ CallsOf(2)[1].where = "month >= '2024-01-24T00:00:00' AND month < '2024-01-28T00:00:00'"
    /\ Len(SelectSeq(log, LAMBDA e : IsGet(e) /\ e.url = base(DATASETS[2].id))) > 1

\* ---------------------------------------------------------------------- C7
\* C7: when a fetch of a dataset has failed, the run is over (no step of
\* main follows) and no file exists for that dataset, not even one with the
\* rows of the days or pages fetched before the failure.
C7_NoPartialFile ==
    pc = "raised" =>
        /\ out_csv(cfg) \notin DOMAIN files
        /\ \A j \in 1..Len(log) : log[j].ev = "write" => log[j].i < idx
        /\ ~ENABLED Next

\* the third day's fetch fails after two earlier days delivered rows
C7_Witness ==
    /\ pc = "raised"
    /\ cfg.per_day
    /\ all_parts # <<>>
    /\ out # <<>>
    /\ files = <<>>

\* ---------------------------------------------------------------------- C8
\* C8 (as claimed): a fetch failure in one dataset does not keep the later
\* datasets from being attempted, so when the run has ended the loop has
\* taken every configured dataset.
C8_OthersStillAttempted ==
    pc \in {"done", "raised"} => idx = Len(DATASETS)

\* ---------------------------------------------------------------------- C9
NumDays(c) == DayOfYear(c.range_end_excl) - DayOfYear(c.range_start)

\* C9 (as claimed): in per-day mode a failed day does not abort the pull, so
\* when the run has ended every day of the range has been fetched.
C9_LaterDaysStillFetched ==
    (pc \in {"done", "raised"} /\ idx >= 1) =>
        \A i \in 1..idx :
            (DATASETS[i].per_day /\ DateLT(DATASETS[i].range_start,
                                           DATASETS[i].range_end_excl)) =>
                Len(CallsOf(i)) = NumDays(DATASETS[i])

\* C9 (amended): in per-day mode a failure of one day's fetch ends the day
\* loop: the failing day is the last day fetched, no call follows the failed
\* request and the loop cannot take another day.
C9_FailureEndsDayLoop ==
    \A j \in 1..Len(log) :
        (IsGet(log[j]) /\ log[j].status = "error" /\ cfg.per_day) =>
            /\ \A k \in (j + 1)..Len(log) : ~IsCall(log[k])
            /\ Len(CallsOf(idx)) = d
            /\ ~ENABLED NextDay

\* the second of four days fails: the days 26 and 27 are never fetched
C9_Witness ==
    /\ pc = "raised"
    /\ cfg.per_day
    /\ NumDays(cfg) = 4
    /\ Len(CallsOf(idx)) = 2
    /\ CallsOf(idx)[2].where = "transit_timestamp >= '2024-01-25T00:00:00' AND transit_timestamp < '2024-01-26T00:00:00'"

\* --------------------------------------------------------------------- C10
\* main is one sequential thread that always takes its next step
FairSpec == Spec /\ WF_vars(Next)

\* C10: unless a request fails, the run reaches the end of main with every
\* configured dataset taken and its file written.  Every fetch_all_rows call
\* has then ended, however many pages it took (the loop has no page cap: C2
\* states what ends it).
C10_Terminates ==
    <>(exc # None \/ (/\ pc = "done"
                      /\ idx = Len(DATASETS)
                      /\ \A i \in 1..Len(DATASETS) :
                            out_csv(DATASETS[i]) \in DOMAIN files))

\* a run that ended well after a call of three pages
C10_Witness ==
    /\ pc = "done"
    /\ exc = None
    /\ Cardinality(DOMAIN files) = Len(DATASETS)
    /\ \E j \in 1..Len(log) : IsGet(log[j]) /\ log[j].params["$offset"] = 2 * page_size

\* --------------------------------------------------------------------- C11
IsObject(e) == IsGet(e) /\ "body" \in DOMAIN e

\* C11 (as claimed): a successful response whose body is a JSON object and
\* not a list of rows makes the call fail: it is the last event of the run,
\* which ended in an error, and nothing built from the body is returned.
C11_ObjectBodyFails ==
    \A j \in 1..Len(log) :
        IsObject(log[j]) => (j = Len(log) /\ pc = "raised" /\ exc # None)

\* --------------------------------------------------------------------- C12
\* the dataset's file has been written
Written(i) == i < idx \/ (i = idx /\ pc \in {"for_dataset", "done"})

WritesOf(i) == SelectSeq(log, LAMBDA e : e.ev = "write" /\ e.i = i)

\* C12: a dataset all of whose fetches succeeded gets exactly one file,
\* written once, named from its name and its two range dates, and the
\* file's rows are the rows its calls returned, same number, same order,
\* also when that is no row at all; a dataset not yet through its fetches
\* has no write.
C12_OneFileOfFetchedRows ==
    \A i \in 1..Len(DATASETS) :
        LET c == DATASETS[i]
            ws == WritesOf(i)
            path == "data/raw/" \o c.name \o "_" \o isoformat(c.range_start)
                    \o "_to_" \o isoformat(c.range_end_excl) \o "_end_excl.csv"
        IN IF i >= 1 /\ Written(i)
           THEN /\ Len(ws) = 1
                /\ ws[1].path = path
                /\ path \in DOMAIN files
                /\ files[path] = ReturnedTo(i)
                /\ Len(files[path]) = Len(ReturnedTo(i))
           ELSE ws = <<>>

C12_Witness ==
    /\ pc = "done"
    /\ "data/raw/hourly_ridership_2024-01-24_to_2024-01-28_end_excl.csv"
           \in DOMAIN files
    /\ Len(files["data/raw/hourly_ridership_2024-01-24_to_2024-01-28_end_excl.csv"]) = 2
    /\ "data/raw/terminal_otp_2024-01-24_to_2024-01-24_end_excl.csv"
           \in DOMAIN files
    /\ files["data/raw/terminal_otp_2024-01-24_to_2024-01-24_end_excl.csv"] = <<>>
    /\ C12_OneFileOfFetchedRows

\* --------------------------------------------------------------------- C13
\* n as exactly w decimal digits
Digits(n, w) ==
    LET F[k \in 0..w] ==
            IF k = 0 THEN ""
            ELSE F[k - 1] \o ToString((n \div (10 ^ (w - k))) % 10)
    IN F[w]

\* YYYY-MM-DD
DateLiteral(x) == Digits(x[1], 4) \o "-" \o Digits(x[2], 2) \o "-" \o Digits(x[3], 2)

\* C13: the filter is always  col >= 'S' AND col < 'E' ; under the tag
\* calendar_date S and E are the bare dates YYYY-MM-DD, under
\* floating_timestamp and any other tag they are those dates at midnight,
\* ending in T00:00:00.
C13_FilterShape ==
    pc = "built" =>
        LET c == DATASETS[1]
            suffix == IF c.dtype = "calendar_date" THEN "" ELSE "T00:00:00"
        IN where = c.date_col \o " >= '" \o DateLiteral(c.range_start) \o suffix
                   \o "' AND " \o c.date_col \o " < '"
                   \o DateLiteral(c.range_end_excl) \o suffix \o "'"

C13_Witness ==
    /\ pc = "built"
    /\ DATASETS[1].dtype = "calendar_date"
    /\ where = "month >= '0987-06-05' AND month < '2024-02-01'"

\* --------------------------------------------------------------------- C14
\* the page requests of the run so far, in order
Requests ==
    LET gets == SelectSeq(log, IsGet)
    IN [k \in 1..Len(gets) |-> [url |-> gets[k].url, params |-> gets[k].params]]

\* the filters of dataset c's calls, as a function of its configuration
FiltersOf(c) ==
    IF c.per_day
    THEN LET days == daterange(c.range_start, c.range_end_excl)
         IN [k \in 1..Len(days) |->
                build_where(c.date_col, c.dtype, days[k], AddDay(days[k]))]
    ELSE << build_where(c.date_col, c.dtype, c.range_start, c.range_end_excl) >>

\* the page requests of one call, as a function of the filter, the table
\* and the page size
RequestsOf(c, w) ==
    [k \in 1..(Len(Matching(w)) \div page_size + 1) |->
        [url |-> "https://data.ny.gov/resource/" \o c.id \o ".json",
         params |-> Params(page_size, (k - 1) * page_size, w, c.select)]]

RunRequests ==
    concat([i \in 1..Len(DATASETS) |->
              LET c == DATASETS[i]
                  ws == FiltersOf(c)
              IN concat([k \in 1..Len(ws) |-> RequestsOf(c, ws[k])])])

RunFiles ==
    [path \in {out_csv(DATASETS[i]) : i \in 1..Len(DATASETS)} |->
        LET c == DATASETS[CHOOSE i \in 1..Len(DATASETS) : out_csv(DATASETS[i]) = path]
            ws == FiltersOf(c)
        IN concat([k \in 1..Len(ws) |-> Matching(ws[k])])]

\* C14: a complete run's request sequence and the contents of the files it
\* wrote are functions of the configuration, the page size and the
\* provider's table alone, so two complete runs against the same table
\* issue the same requests and write the same files.
C14_Deterministic ==
    pc = "done" => (Requests = RunRequests /\ files = RunFiles)

C14_Witness ==
    /\ pc = "done"
    /\ Len(Requests) >= 7
    /\ \E path \in DOMAIN files : Len(files[path]) = 2
    /\ C14_Deterministic

\* --------------------------------------------------------------------- C15
\* C15: within one call the k-th page request carries $limit = page_size and
\* $offset = (k - 1) * page_size (0 first, then growing by page_size, so no
\* offset occurs twice), and every request of the call carries the call's
\* filter and the same column selection (or none).
C15_PageParams ==
    \A k \in 1..Len(CurGets) :
        LET p == CurGets[k].params
            p1 == CurGets[1].params
        IN /\ p["$limit"] = page_size
           /\ p["$offset"] = (k - 1) * page_size
           /\ \A j \in 1..Len(CurGets) :
                 j # k => CurGets[j].params["$offset"] # p["$offset"]
           /\ "$where" \in DOMAIN p
           /\ p["$where"] = log[LastCall].where
           /\ ("$select" \in DOMAIN p) = ("$select" \in DOMAIN p1)
           /\ "$select" \in DOMAIN p => p["$select"] = p1["$select"]

C15_Witness ==
    /\ Len(CurGets) = 3
    /\ page_size = 1
    /\ CurGets[3].params["$offset"] = 2
    /\ "$select" \in DOMAIN CurGets[3].params
    /\ C15_PageParams

\* --------------------------------------------------------------------- C16
\* the page requests and the file writes of the run, in order
GetsAndWrites == SelectSeq(log, LAMBDA e : e.ev \in {"get", "write"})

\* the dataset an event belongs to: a request by its URL, a write by its entry
DatasetOf(e) ==
    IF e.ev = "write" THEN e.i
    ELSE CHOOSE i \in 1..Len(DATASETS) :
            e.url = "https://data.ny.gov/resource/" \o DATASETS[i].id \o ".json"

\* the filters of dataset c's days in ascending order, counted by adding
\* one day at a time to range_start (the one filter of a single-shot dataset)
DayFilters(c) ==
    LET n == IF NumDays(c) > 0 THEN NumDays(c) ELSE 0
        day[k \in 0..n] == IF k = 0 THEN c.range_start ELSE AddDay(day[k - 1])
    IN IF c.per_day
       THEN [k \in 1..n |-> build_where(c.date_col, c.dtype, day[k - 1], day[k])]
       ELSE << build_where(c.date_col, c.dtype, c.range_start, c.range_end_excl) >>

\* C16: the requests and writes of a run are strictly sequential: the first
\* belongs to the first dataset; after a request comes a request of the same
\* dataset for the same or a later day (never an earlier one), or that
\* dataset's write; after a write comes nothing of the same or an earlier
\* dataset, only a request or the write of the next dataset in
\* configuration order.
C16_Sequential ==
    \A evs \in {GetsAndWrites} :
    \A fs \in {[i \in 1..Len(DATASETS) |-> DayFilters(DATASETS[i])]} :
    \A ds \in {[k \in 1..Len(evs) |-> DatasetOf(evs[k])]} :
    \* the day the k-th event asks for, 0 if it is none of its dataset's
    \A day \in {[k \in 1..Len(evs) |->
                   IF evs[k].ev = "get"
                      /\ \E j \in 1..Len(fs[ds[k]]) :
                            fs[ds[k]][j] = evs[k].params["$where"]
                   THEN CHOOSE j \in 1..Len(fs[ds[k]]) :
                            fs[ds[k]][j] = evs[k].params["$where"]
                   ELSE 0]} :
       /\ evs # <<>> => ds[1] = 1
       /\ \A k \in 1..(Len(evs) - 1) :
             IF evs[k].ev = "write"
             THEN ds[k + 1] = ds[k] + 1
             ELSE /\ ds[k + 1] = ds[k]
                  /\ day[k] >= 1
                  /\ evs[k + 1].ev = "get" =>
                        (day[k + 1] >= 1 /\ day[k] <= day[k + 1])

\* the filter of the (n+1)-th day of the first dataset
DayFilter1(n) == DayFilters(DATASETS[1])[n + 1]

C16_Witness ==
    /\ pc = "done"
    /\ Len(SelectSeq(log, LAMBDA e : e.ev = "write")) = 3
    /\ \E k \in 1..(Len(GetsAndWrites) - 1) :
          /\ GetsAndWrites[k].ev = "get"
          /\ GetsAndWrites[k + 1].ev = "get"
          /\ DATASETS[1].per_day
          /\ DATASETS[1].range_end_excl = END_DAY_EXCL
          /\ GetsAndWrites[k].params["$where"] = DayFilter1(0)
          /\ GetsAndWrites[k + 1].params["$where"] = DayFilter1(1)
    /\ \E k \in 1..(Len(GetsAndWrites) - 1) :
          /\ GetsAndWrites[k].ev = "write"
          /\ GetsAndWrites[k + 1].ev = "get"
    /\ C16_Sequential

\* --------------------------------------------------------------------- C17
\* the requests and pauses since the entry of the last call, in order
GetsAndSleeps ==
    SelectSeq(SubSeq(log, LastCall + 1, Len(log)),
              LAMBDA e : IsGet(e) \/ IsSleep(e))

\* C17: requests and pauses alternate, beginning with a request: the pause
\* happens once between two consecutive page requests of a call and nowhere
\* else (not before the first request, not before the first call, not after
\* the call's last page, be it short, empty or failed, not between calls);
\* a pause follows only a full page, and a call that has ended with n
\* requests has paused n - 1 times.
C17_PauseBetweenPages ==
    \A es \in {GetsAndSleeps} :
       /\ \A k \in 1..Len(es) : IsGet(es[k]) <=> (k % 2 = 1)
       /\ \A k \in 1..Len(es) :
             IsSleep(es[k]) =>
                 (k > 1 /\ es[k - 1].status = "ok" /\ es[k - 1].n = page_size)
       /\ pc = "get" => Len(es) % 2 = 0
       /\ (pc # "get" /\ es # <<>>) =>
             /\ IsGet(es[Len(es)])
             /\ Len(SelectSeq(es, IsSleep)) = Len(SelectSeq(es, IsGet)) - 1
       /\ (pc \notin {"get", "sleep"} /\ es # <<>>) =>
             (es[Len(es)].status = "error" \/ es[Len(es)].n < page_size)

\* a call of three requests and two pauses that ended on an empty page
C17_Witness ==
    /\ pc = "return"
    /\ Len(SelectSeq(GetsAndSleeps, IsGet)) = 3
    /\ Len(SelectSeq(GetsAndSleeps, IsSleep)) = 2
    /\ GetsAndSleeps[5].n = 0
    /\ C17_PauseBetweenPages

\* --------------------------------------------------------------------- C18
\* the page requests made for dataset i, by URL
GetsOf(i) ==
    SelectSeq(log, LAMBDA e : IsGet(e) /\ e.url = base(DATASETS[i].id))

\* C18: a dataset whose range_start is not before its range_end_excl is not
\* an error.  Per-day: no call is made for it (no day, no filter, no
\* request), nothing is raised while main is at it, and once it is through
\* its file is there with no rows.  Single-shot: exactly one call is made,
\* with the filter of the whole range, which matches no row; it takes one
\* request, and if that succeeds the file is written with no rows.
C18_EmptyRange ==
    \A i \in 1..idx :
        LET c == DATASETS[i]
        IN ~DateLT(c.range_start, c.range_end_excl) =>
           IF c.per_day
           THEN /\ CallsOf(i) = <<>>
                /\ GetsOf(i) = <<>>
                /\ i = idx => pc \in {"for_day", "write", "for_dataset", "done"}
                /\ Written(i) =>
                      (out_csv(c) \in DOMAIN files /\ files[out_csv(c)] = <<>>)
           ELSE /\ Len(CallsOf(i)) = 1
                /\ CallsOf(i)[1].where =
                      build_where(c.date_col, c.dtype, c.range_start, c.range_end_excl)
                /\ Matching(CallsOf(i)[1].where) = <<>>
                /\ Len(GetsOf(i)) <= 1
                /\ (i < idx \/ pc # "get") => Len(GetsOf(i)) = 1
                /\ Written(i) =>
                      (out_csv(c) \in DOMAIN files /\ files[out_csv(c)] = <<>>)

\* a run over a non-empty table whose first dataset is per-day with a
\* reversed range and whose second is single-shot with an empty range
C18_Witness ==
    /\ pc = "done"
    /\ source # <<>>
    /\ DATASETS[1].per_day
    /\ DATASETS[1].range_start = END_DAY_EXCL
    /\ DATASETS[1].range_end_excl = START_DAY
    /\ ~DATASETS[2].per_day
    /\ DATASETS[2].range_start = DATASETS[2].range_end_excl
    /\ GetsOf(1) = <<>>
    /\ Len(GetsOf(2)) = 1
    /\ files[out_csv(DATASETS[1])] = <<>>
    /\ C18_EmptyRange

\* --------------------------------------------------------------------- C19
\* the elements of a sequence
Elements(seq) == {seq[k] : k \in 1..Len(seq)}

\* C19: the filters of a per-day dataset's calls tile its range: the first
\* interval starts at range_start, each interval ends where the next one
\* starts, and once the day loop is through the last one ends at
\* range_end_excl (no call at all for an empty range); then the rows the
\* calls returned are, as a collection, the rows the single filter over the
\* whole range matches in the stable table, each of them once.
C19_DaysTileRange ==
    \A i \in 1..idx :
        DATASETS[i].per_day =>
        \A c \in {DATASETS[i]} :
        \A qs \in {[k \in 1..Len(CallsOf(i)) |->
                       CHOOSE q \in Parsed(CallsOf(i)[k].where) : TRUE]} :
           /\ qs # <<>> => qs[1].lo = c.range_start
           /\ \A k \in 1..(Len(qs) - 1) : qs[k].hi = qs[k + 1].lo
           /\ \A k \in 1..Len(qs) : DateLT(qs[k].lo, qs[k].hi)
           /\ Completed(i) =>
                 /\ qs # <<>> => qs[Len(qs)].hi = c.range_end_excl
                 /\ qs = <<>> => ~DateLT(c.range_start, c.range_end_excl)
                 /\ \A got \in {ReturnedTo(i)} :
                    \A whole \in {Matching(build_where(c.date_col, c.dtype,
                                     c.range_start, c.range_end_excl))} :
                       /\ Elements(got) = Elements(whole)
                       /\ Len(got) = Len(whole)
                       /\ Cardinality(Elements(got)) = Len(got)

\* a finished per-day pull of two rows that the table holds in the other
\* order than the days
C19_Witness ==
    /\ idx >= 1
    /\ DATASETS[1].per_day
    /\ Completed(1)
    /\ Len(CallsOf(1)) = 4
    /\ Len(ReturnedTo(1)) = 2
    /\ ReturnedTo(1) # Matching(build_where(DATASETS[1].date_col,
                                            DATASETS[1].dtype, START_DAY,
                                            END_DAY_EXCL))
    /\ C19_DaysTileRange

\* --------------------------------------------------------------------- C20
\* C20: whenever a page request is about to be issued (also while the call
\* pauses before it) the number of rows accumulated equals the offset the
\* request will carry, a multiple of page_size; the offset stays a multiple
\* of page_size throughout, and the accumulator's length leaves the
\* multiples of page_size only when a final short page has been appended,
\* never exceeding offset + page_size.
C20_AccumulatorIsOffset ==
    /\ pc \in {"get", "sleep"} =>
          /\ Len(out) = offset
          /\ Len(out) % page_size = 0
          /\ Len(out) = page_size * Len(CurGets)
    /\ offset % page_size = 0
    /\ pc = "return" =>
          /\ offset <= Len(out)
          /\ Len(out) < offset + page_size
          /\ Len(out) % page_size # 0 =>
                (CurGets # <<>> /\ CurGets[Len(CurGets)].n = Len(out) - offset)

\* the third request of a call is about to be issued with two rows held
C20_Witness ==
    /\ pc = "get"
    /\ page_size = 1
    /\ offset = 2
    /\ Len(out) = 2
    /\ Len(CurGets) = 2

====
